---- MODULE Spec2Model ----
(***************************************************************************)
(* infra-ecommerce: the placeholder backend responder                      *)
(* (container_images/backend/server.py), the resources that                *)
(* InfraEcommerceStack.__init__ declares, statement group by statement     *)
(* group (infra_ecommerce/infra_ecommerce_stack.py), and the blue/green    *)
(* deployments that the declared CodeDeploy deployment groups configure.   *)
(***************************************************************************)
EXTENDS Integers, Sequences, FiniteSets, TLC

VARIABLES
    env,            \* os.environ of the responder process: a partial map name -> value
    startEnv,       \* os.environ as it was when main() started the server
    listenPort,     \* the port main() bound the HTTPServer to
    requestPath,    \* self.path of the last GET handled (NoRequest before the first)
    response,       \* what _send_json sent for it
    pc,             \* the position reached in InfraEcommerceStack.__init__
    constructs,     \* the construct ids declared so far
    ingress,        \* security-group ingress rules
    loadBalancers,  \* application load balancers
    listeners,      \* load-balancer listeners
    databases,      \* RDS instances
    containers,     \* task-definition containers
    services,       \* Fargate services
    targetGroups,   \* application target groups
    attachments,    \* service -> target group registrations
    listenerRules,  \* listener default actions (add_target_groups)
    deploymentGroups, \* CodeDeploy ECS deployment groups
    outputs,        \* CfnOutputs
    forward,        \* per listener: target group -> percent of the listener's traffic
    phase,          \* per deployment group: the phase of its deployment
    original,       \* per deployment group: the target group serving when the deployment began
    outcome,        \* per deployment group: how its last deployment ended
    rollback,       \* per deployment group: what the end of its last unsuccessful deployment did
    deployments     \* per deployment group: deployments started so far

responderVars == <<env, startEnv, listenPort, requestPath, response>>
stackVars == <<pc, constructs, ingress, loadBalancers, listeners, databases, containers,
               services, targetGroups, attachments, listenerRules, deploymentGroups, outputs>>
deployVars == <<forward, phase, original, outcome, rollback, deployments>>
vars == <<responderVars, stackVars, deployVars>>

----------------------------------------------------------------------------
(* Bounds of the model *)

\* Deployments started per service.
MaxDeployments == 2

----------------------------------------------------------------------------
(* The responder: container_images/backend/server.py *)

\* The value of requestPath before any request.
NoRequest == "<none>"

\* The environment variables the process may hold, and the values tried for each.
EnvValues ==
    [DB_HOST |-> {"db.internal"},
     DB_PORT |-> {"3306"},
     DB_NAME |-> {"ecommerce"},
     DB_USERNAME |-> {"appuser", ""},
     DB_PASSWORD |-> {"s3cret", "hunter2"},
     PORT |-> {"8080"}]

EnvNames == DOMAIN EnvValues

\* Every environment: each variable absent, or set to one of its values.
Environments ==
    UNION { {e \in [present -> UNION {EnvValues[n] : n \in present}] :
                \A n \in present : e[n] \in EnvValues[n]} : present \in SUBSET EnvNames }

\* The request paths tried: the four recognized ones and near misses.
Paths == {"/", "/api", "/api/health", "/health",
          "/health/", "/api/", "/Health", "/health?probe=1", "/favicon.ico"}

\* os.environ.get(name) or default: a variable set to the empty string reads as
\* the default too.
environ_get_or_default(e, name, default) ==
    IF name \in DOMAIN e /\ e[name] # "" THEN e[name] ELSE default

\* os.environ.get(name, default)
environ_get(e, name, default) == IF name \in DOMAIN e THEN e[name] ELSE default

\* int(s) on the decimal strings PORT takes here.
int(s) == CASE s = "4000" -> 4000
            [] s = "8080" -> 8080

\* {**a, **b}: the keys of both, b's value where both have the key.
dict_merge(a, b) == [k \in DOMAIN a \cup DOMAIN b |-> IF k \in DOMAIN b THEN b[k] ELSE a[k]]

\* build_response with the database object missing its user field.
build_response_without_user(e) ==
    [message |-> "Ecommerce backend placeholder",
     database |-> [host |-> environ_get(e, "DB_HOST", "unset"),
                   port |-> environ_get(e, "DB_PORT", "unset"),
                   name |-> environ_get(e, "DB_NAME", "unset")]]

\* build_response echoing the password with the other connection parameters.
build_response_with_password(e) ==
    [message |-> "Ecommerce backend placeholder",
     database |-> [host |-> environ_get(e, "DB_HOST", "unset"),
                   port |-> environ_get(e, "DB_PORT", "unset"),
                   name |-> environ_get(e, "DB_NAME", "unset"),
                   user |-> environ_get(e, "DB_USERNAME", "unset"),
                   password |-> environ_get(e, "DB_PASSWORD", "unset")]]

build_response(e) ==
    [message |-> "Ecommerce backend placeholder",
     database |-> [host |-> environ_get(e, "DB_HOST", "unset"),
                   port |-> environ_get(e, "DB_PORT", "unset"),
                   name |-> environ_get(e, "DB_NAME", "unset"),
                   user |-> environ_get(e, "DB_USERNAME", "unset")]]

\* Handler._send_json: the status line, the Content-Type header and the payload
\* (json.dumps writes a dict of strings as the JSON object with the same members).
send_json(payload, status) ==
    [status |-> status, contentType |-> "application/json", body |-> payload]

\* The recognized set with a trailing slash tolerated on /health.
RecognizedPathsTrailingSlash == {"/", "/api", "/api/health", "/health", "/health/"}

RecognizedPaths == {"/", "/api", "/api/health", "/health"}

\* What Handler.do_GET sends for self.path = path under environment e.
\* do_GET answering from the environment captured when the server started.
do_GET_response_captured(path, e) ==
    IF path \in RecognizedPaths
    THEN send_json(dict_merge([status |-> "ok"], build_response(startEnv)), 200)
    ELSE send_json([status |-> "not_found", path |-> path], 404)

do_GET_response(path, e) ==
    IF path \in RecognizedPaths
    THEN send_json(dict_merge([status |-> "ok"], build_response(e)), 200)
    ELSE send_json([status |-> "not_found", path |-> path], 404)

\* main(): the port the server listens on.
main_port(e) == int(environ_get(e, "PORT", "4000"))

\* Handler.do_GET for one request.
do_GET(path) ==
    /\ requestPath' = path
    /\ response' = do_GET_response(path, env)
    /\ UNCHANGED <<env, startEnv, listenPort, stackVars, deployVars>>

\* os.environ[name] = value, between two requests.
environ_set(name, value) ==
    /\ env' = [n \in DOMAIN env \cup {name} |-> IF n = name THEN value ELSE env[n]]
    /\ env' # env
    /\ UNCHANGED <<startEnv, listenPort, requestPath, response, stackVars, deployVars>>

\* del os.environ[name], between two requests.
environ_unset(name) ==
    /\ name \in DOMAIN env
    /\ env' = [n \in DOMAIN env \ {name} |-> env[n]]
    /\ UNCHANGED <<startEnv, listenPort, requestPath, response, stackVars, deployVars>>

----------------------------------------------------------------------------
(* The stack: infra_ecommerce/infra_ecommerce_stack.py *)

\* ec2.Peer.any_ipv4()
AnyIpv4 == "0.0.0.0/0"

\* SecurityGroup.add_ingress_rule(peer, ec2.Port.tcp(port))
add_ingress_rule(sg, peer, port) == [sg |-> sg, peer |-> peer, port |-> port, protocol |-> "tcp"]

\* Security groups and their explicit ingress rules.
fe_alb_sg == {add_ingress_rule("FeAlbSg", AnyIpv4, 80)}
fe_svc_sg == {add_ingress_rule("FeServiceSg", "FeAlbSg", 3000)}
be_alb_sg == {add_ingress_rule("BeAlbSg", AnyIpv4, 80)}
be_svc_sg == {add_ingress_rule("BeServiceSg", "BeAlbSg", 4000)}
\* The database group also opened to the frontend service.
db_sg_open_to_frontend ==
    {add_ingress_rule("DbSg", "BeServiceSg", 3306), add_ingress_rule("DbSg", "FeServiceSg", 3306)}

db_sg == {add_ingress_rule("DbSg", "BeServiceSg", 3306)}

SecurityGroupIds == {"FeAlbSg", "FeServiceSg", "BeAlbSg", "BeServiceSg", "DbSg"}

\* elbv2.ApplicationLoadBalancer(...)
fe_alb == [id |-> "FeAlb", internet_facing |-> TRUE, security_group |-> "FeAlbSg"]
be_alb == [id |-> "BeAlb", internet_facing |-> TRUE, security_group |-> "BeAlbSg"]

\* alb.add_listener(id, port=, open=, protocol=HTTP): the listener declared.
add_listener(alb, id, port, open) ==
    [id |-> id, lb |-> alb.id, port |-> port, open |-> open, protocol |-> "HTTP"]

\* add_listener with open=True lets anyone reach the listener port: it adds an
\* ingress rule from any IPv4 address to the load balancer's security group.
listener_ingress(alb, l) ==
    IF l.open THEN {add_ingress_rule(alb.security_group, AnyIpv4, l.port)} ELSE {}

fe_listener_prod == add_listener(fe_alb, "FeListenerProd", 80, TRUE)
fe_listener_test == add_listener(fe_alb, "FeListenerTest", 9000, FALSE)
be_listener_prod == add_listener(be_alb, "BeListenerProd", 80, TRUE)
\* The backend test listener left at add_listener's default, open=True.
be_listener_test_open == add_listener(be_alb, "BeListenerTest", 9000, TRUE)

be_listener_test == add_listener(be_alb, "BeListenerTest", 9000, FALSE)

\* rds.DatabaseInstance(...)
database ==
    [id |-> "EcommerceDatabase", engine |-> "mysql", engine_version |-> "8.0.43",
     subnet_type |-> "PRIVATE_ISOLATED", database_name |-> "ecommerce",
     username |-> "appuser", instance_class |-> "db.t3.micro",
     allocated_storage |-> 20, max_allocated_storage |-> 100, multi_az |-> FALSE,
     security_groups |-> {"DbSg"}, publicly_accessible |-> FALSE,
     deletion_protection |-> FALSE]

\* task.add_container(...) with its add_port_mappings(container_port=...)
fe_container ==
    [id |-> "FrontendContainer", task |-> "FeTask", container_port |-> 3000,
     environment |-> [API_BASE_URL |-> "http://<BeAlb.dns_name>"],
     secrets |-> {}]
be_container ==
    [id |-> "BackendContainer", task |-> "BeTask", container_port |-> 4000,
     environment |-> [DB_HOST |-> "<EcommerceDatabase.endpoint.hostname>",
                      DB_PORT |-> "<EcommerceDatabase.endpoint.port>",
                      DB_NAME |-> "ecommerce"],
     secrets |-> {"DB_USERNAME", "DB_PASSWORD"}]

\* ecs.FargateService(...)
fe_service ==
    [id |-> "FrontendService", task_definition |-> "FeTask", desired_count |-> 1,
     assign_public_ip |-> TRUE, security_groups |-> {"FeServiceSg"},
     subnet_type |-> "PUBLIC", deployment_controller |-> "CODE_DEPLOY"]
be_service ==
    [id |-> "BackendService", task_definition |-> "BeTask", desired_count |-> 1,
     assign_public_ip |-> FALSE, security_groups |-> {"BeServiceSg"},
     subnet_type |-> "PRIVATE_ISOLATED", deployment_controller |-> "CODE_DEPLOY"]

\* elbv2.HealthCheck(path=, healthy_http_codes=, interval=Duration.seconds(...))
HealthCheck(path, codes, seconds) ==
    [path |-> path, healthy_http_codes |-> codes, interval |-> seconds]

\* elbv2.ApplicationTargetGroup(...)
ApplicationTargetGroup(id, port, health_check) ==
    [id |-> id, port |-> port, protocol |-> "HTTP", target_type |-> "IP",
     health_check |-> health_check]

fe_tg_prod == ApplicationTargetGroup("FeTgProdV3", 3000, HealthCheck("/", "200-399", 30))
fe_tg_test == ApplicationTargetGroup("FeTgTestV3", 3000, HealthCheck("/", "200-399", 30))
\* The backend production group checked on a path the responder does not serve.
be_tg_prod_healthz ==
    ApplicationTargetGroup("BeTgProdV3", 4000, HealthCheck("/healthz", "200-399", 30))

be_tg_prod == ApplicationTargetGroup("BeTgProdV3", 4000, HealthCheck("/health", "200-399", 30))
\* The backend test group checked on "/" like the frontend's.
be_tg_test_root_health ==
    ApplicationTargetGroup("BeTgTestV3", 4000, HealthCheck("/", "200-399", 30))

be_tg_test == ApplicationTargetGroup("BeTgTestV3", 4000, HealthCheck("/health", "200-399", 30))

\* service.attach_to_application_target_group(tg)
fe_attachment == [service |-> fe_service.id, target_group |-> fe_tg_prod.id]
be_attachment == [service |-> be_service.id, target_group |-> be_tg_prod.id]

\* listener.add_target_groups(id, target_groups=[...]): with no conditions and no
\* priority this sets the listener's default action.
add_target_groups(l, id, tgs) ==
    [id |-> id, listener |-> l.id, target_groups |-> {t.id : t \in tgs},
     conditions |-> {}, default |-> TRUE]

FeProdRule == add_target_groups(fe_listener_prod, "FeProdRule", {fe_tg_prod})
FeTestRule == add_target_groups(fe_listener_test, "FeTestRule", {fe_tg_test})
BeProdRule == add_target_groups(be_listener_prod, "BeProdRule", {be_tg_prod})
BeTestRule == add_target_groups(be_listener_test, "BeTestRule", {be_tg_test})

\* codedeploy.AutoRollbackConfig(failed_deployment=, stopped_deployment=)
AutoRollbackConfig(failed, stopped) ==
    [failed_deployment |-> failed, stopped_deployment |-> stopped]

\* Duration.minutes(5)
termination_wait_time == 5

\* codedeploy.EcsDeploymentGroup(...)
\* The frontend group shifting a canary first.
fe_dg_canary ==
    [id |-> "FrontendDeploymentGroup", application |-> "FrontendEcsApp",
     service |-> fe_service.id,
     blue_target_group |-> fe_tg_prod.id, green_target_group |-> fe_tg_test.id,
     listener |-> fe_listener_prod.id, test_listener |-> fe_listener_test.id,
     termination_wait_time |-> termination_wait_time,
     deployment_config |-> "CANARY_10PERCENT_5MINUTES",
     auto_rollback |-> AutoRollbackConfig(TRUE, TRUE)]

fe_dg ==
    [id |-> "FrontendDeploymentGroup", application |-> "FrontendEcsApp",
     service |-> fe_service.id,
     blue_target_group |-> fe_tg_prod.id, green_target_group |-> fe_tg_test.id,
     listener |-> fe_listener_prod.id, test_listener |-> fe_listener_test.id,
     termination_wait_time |-> termination_wait_time,
     deployment_config |-> "ALL_AT_ONCE",
     auto_rollback |-> AutoRollbackConfig(TRUE, TRUE)]
\* The backend group rolling back failed deployments only.
be_dg_failed_only ==
    [id |-> "BackendDeploymentGroup", application |-> "BackendEcsApp",
     service |-> be_service.id,
     blue_target_group |-> be_tg_prod.id, green_target_group |-> be_tg_test.id,
     listener |-> be_listener_prod.id, test_listener |-> be_listener_test.id,
     termination_wait_time |-> termination_wait_time,
     deployment_config |-> "ALL_AT_ONCE",
     auto_rollback |-> AutoRollbackConfig(TRUE, FALSE)]

be_dg ==
    [id |-> "BackendDeploymentGroup", application |-> "BackendEcsApp",
     service |-> be_service.id,
     blue_target_group |-> be_tg_prod.id, green_target_group |-> be_tg_test.id,
     listener |-> be_listener_prod.id, test_listener |-> be_listener_test.id,
     termination_wait_time |-> termination_wait_time,
     deployment_config |-> "ALL_AT_ONCE",
     auto_rollback |-> AutoRollbackConfig(TRUE, TRUE)]

\* CfnOutput(self, name, value=, description=)
CfnOutput(name, value, description) ==
    [name |-> name, value |-> value, description |-> description]

NoDescription == "<none>"

StackOutputs ==
    {CfnOutput("FrontendUrl", "http://<FeAlb.dns_name>", "FE public URL"),
     CfnOutput("BackendUrl", "http://<BeAlb.dns_name>", "BE public URL (Postman/E2E)"),
     CfnOutput("FrontendEcrUri", "<FrontendRepo.repository_uri>", NoDescription),
     CfnOutput("BackendEcrUri", "<BackendRepo.repository_uri>", NoDescription),
     CfnOutput("DatabaseSecretArn", "<DatabaseCredentials.secret_arn>", NoDescription),
     CfnOutput("DatabaseEndpoint", "<EcommerceDatabase.endpoint.socket_address>", NoDescription),
     CfnOutput("FrontendCodeDeployApp", "<FrontendEcsApp.application_name>", NoDescription),
     CfnOutput("FrontendDeploymentGroupName", "<FrontendDeploymentGroup.name>", NoDescription),
     CfnOutput("BackendCodeDeployApp", "<BackendEcsApp.application_name>", NoDescription),
     CfnOutput("BackendDeploymentGroupName", "<BackendDeploymentGroup.name>", NoDescription)}

\* Attaching a service to a target group that a listener forwards to opens the
\* service's security groups to the load balancer's, on the container port.
connection_ingress(rules) ==
    { add_ingress_rule(g, b.security_group, c.container_port) :
        <<g, b, c>> \in
          { <<g, b, c>> \in SecurityGroupIds \X loadBalancers \X containers :
              \E r \in rules, l \in listeners, a \in attachments, v \in services :
                 /\ r.listener = l.id /\ l.lb = b.id
                 /\ a.target_group \in r.target_groups /\ a.service = v.id
                 /\ g \in v.security_groups /\ c.task = v.task_definition } }

\* The listener's forward action a rule gives it: all traffic to the rule's group.
rule_forward(r) == [t \in r.target_groups |-> 100]

\* The status codes a healthy_http_codes range accepts.
healthy_http_codes(codes) ==
    CASE codes = "200-399" -> 200..399
      [] codes = "200-499" -> 200..499
      [] codes = "200" -> {200}

----------------------------------------------------------------------------
(* InfraEcommerceStack.__init__, one action per statement group *)

BuildNetworking ==
    /\ pc = "networking"
    /\ pc' = "ecr"
    /\ constructs' = constructs \cup {"EcommerceVpc", "EcrApiEndpoint", "EcrDkrEndpoint",
                                      "LogsEndpoint", "S3GatewayEndpoint", "EcommerceCluster"}
    /\ UNCHANGED <<ingress, loadBalancers, listeners, databases, containers, services,
                   targetGroups, attachments, listenerRules, deploymentGroups, outputs>>
    /\ UNCHANGED <<responderVars, deployVars>>

BuildRepositories ==
    /\ pc = "ecr"
    /\ pc' = "secret"
    /\ constructs' = constructs \cup {"FrontendRepo", "BackendRepo"}
    /\ UNCHANGED <<ingress, loadBalancers, listeners, databases, containers, services,
                   targetGroups, attachments, listenerRules, deploymentGroups, outputs>>
    /\ UNCHANGED <<responderVars, deployVars>>

BuildSecret ==
    /\ pc = "secret"
    /\ pc' = "security_groups"
    /\ constructs' = constructs \cup {"DatabaseCredentials"}
    /\ UNCHANGED <<ingress, loadBalancers, listeners, databases, containers, services,
                   targetGroups, attachments, listenerRules, deploymentGroups, outputs>>
    /\ UNCHANGED <<responderVars, deployVars>>

BuildSecurityGroups ==
    /\ pc = "security_groups"
    /\ pc' = "load_balancers"
    /\ constructs' = constructs \cup SecurityGroupIds
    /\ ingress' = ingress \cup fe_alb_sg \cup fe_svc_sg \cup be_alb_sg \cup be_svc_sg \cup db_sg
    /\ UNCHANGED <<loadBalancers, listeners, databases, containers, services,
                   targetGroups, attachments, listenerRules, deploymentGroups, outputs>>
    /\ UNCHANGED <<responderVars, deployVars>>

BuildLoadBalancers ==
    /\ pc = "load_balancers"
    /\ pc' = "database"
    /\ loadBalancers' = loadBalancers \cup {fe_alb, be_alb}
    /\ listeners' = listeners \cup {fe_listener_prod, fe_listener_test,
                                    be_listener_prod, be_listener_test}
    /\ ingress' = ingress \cup listener_ingress(fe_alb, fe_listener_prod)
                          \cup listener_ingress(fe_alb, fe_listener_test)
                          \cup listener_ingress(be_alb, be_listener_prod)
                          \cup listener_ingress(be_alb, be_listener_test)
    /\ constructs' = constructs \cup {fe_alb.id, be_alb.id, fe_listener_prod.id,
                                      fe_listener_test.id, be_listener_prod.id,
                                      be_listener_test.id}
    /\ UNCHANGED <<databases, containers, services,
                   targetGroups, attachments, listenerRules, deploymentGroups, outputs>>
    /\ UNCHANGED <<responderVars, deployVars>>

BuildDatabase ==
    /\ pc = "database"
    /\ pc' = "iam"
    /\ databases' = databases \cup {database}
    /\ constructs' = constructs \cup {database.id}
    /\ UNCHANGED <<ingress, loadBalancers, listeners, containers, services,
                   targetGroups, attachments, listenerRules, deploymentGroups, outputs>>
    /\ UNCHANGED <<responderVars, deployVars>>

BuildExecutionRoles ==
    /\ pc = "iam"
    /\ pc' = "task_definitions"
    /\ constructs' = constructs \cup {"FeTaskExecutionRole", "BeTaskExecutionRole"}
    /\ UNCHANGED <<ingress, loadBalancers, listeners, databases, containers, services,
                   targetGroups, attachments, listenerRules, deploymentGroups, outputs>>
    /\ UNCHANGED <<responderVars, deployVars>>

BuildTaskDefinitions ==
    /\ pc = "task_definitions"
    /\ pc' = "services"
    /\ containers' = containers \cup {fe_container, be_container}
    /\ constructs' = constructs \cup {fe_container.task, be_container.task,
                                      fe_container.id, be_container.id}
    /\ UNCHANGED <<ingress, loadBalancers, listeners, databases, services,
                   targetGroups, attachments, listenerRules, deploymentGroups, outputs>>
    /\ UNCHANGED <<responderVars, deployVars>>

BuildServices ==
    /\ pc = "services"
    /\ pc' = "target_groups"
    /\ services' = services \cup {fe_service, be_service}
    /\ constructs' = constructs \cup {fe_service.id, be_service.id}
    /\ UNCHANGED <<ingress, loadBalancers, listeners, databases, containers,
                   targetGroups, attachments, listenerRules, deploymentGroups, outputs>>
    /\ UNCHANGED <<responderVars, deployVars>>

BuildTargetGroups ==
    /\ pc = "target_groups"
    /\ pc' = "listener_rules"
    /\ targetGroups' = targetGroups \cup {fe_tg_prod, fe_tg_test, be_tg_prod, be_tg_test}
    /\ attachments' = attachments \cup {fe_attachment, be_attachment}
    /\ constructs' = constructs \cup {fe_tg_prod.id, fe_tg_test.id, be_tg_prod.id, be_tg_test.id}
    /\ UNCHANGED <<ingress, loadBalancers, listeners, databases, containers, services,
                   listenerRules, deploymentGroups, outputs>>
    /\ UNCHANGED <<responderVars, deployVars>>

BuildListenerRules ==
    /\ pc = "listener_rules"
    /\ pc' = "codedeploy"
    /\ LET rules == {FeProdRule, FeTestRule, BeProdRule, BeTestRule}
       IN  /\ listenerRules' = listenerRules \cup rules
           /\ ingress' = ingress \cup connection_ingress(rules)
           /\ forward' = [l \in {r.listener : r \in rules} |->
                            rule_forward(CHOOSE r \in rules : r.listener = l)]
           /\ constructs' = constructs \cup {r.id : r \in rules}
    /\ UNCHANGED <<loadBalancers, listeners, databases, containers, services,
                   targetGroups, attachments, deploymentGroups, outputs>>
    /\ UNCHANGED <<responderVars, phase, original, outcome, rollback, deployments>>

BuildDeploymentGroups ==
    /\ pc = "codedeploy"
    /\ pc' = "outputs"
    /\ deploymentGroups' = deploymentGroups \cup {fe_dg, be_dg}
    /\ constructs' = constructs \cup {fe_dg.application, be_dg.application, fe_dg.id, be_dg.id}
    /\ phase' = [g \in {fe_dg.id, be_dg.id} |-> "idle"]
    /\ original' = [g \in {fe_dg.id, be_dg.id} |-> "none"]
    /\ outcome' = [g \in {fe_dg.id, be_dg.id} |-> "none"]
    /\ rollback' = [g \in {fe_dg.id, be_dg.id} |-> "none"]
    /\ deployments' = [g \in {fe_dg.id, be_dg.id} |-> 0]
    /\ UNCHANGED <<ingress, loadBalancers, listeners, databases, containers, services,
                   targetGroups, attachments, listenerRules, outputs>>
    /\ UNCHANGED <<responderVars, forward>>

BuildOutputs ==
    /\ pc = "outputs"
    /\ pc' = "done"
    /\ outputs' = outputs \cup StackOutputs
    /\ constructs' = constructs \cup {o.name : o \in StackOutputs}
    /\ UNCHANGED <<ingress, loadBalancers, listeners, databases, containers, services,
                   targetGroups, attachments, listenerRules, deploymentGroups>>
    /\ UNCHANGED <<responderVars, deployVars>>

----------------------------------------------------------------------------
(* Blue/green deployments of a declared deployment group *)

\* The target group that receives most of a listener's traffic.
Serving(route) == CHOOSE t \in DOMAIN route : \A u \in DOMAIN route : route[t] >= route[u]

\* The percent of a listener's traffic that goes to target group t.
Weight(route, t) == IF t \in DOMAIN route THEN route[t] ELSE 0

\* The group of the pair that the deployment's new task set registers with.
Replacement(g) ==
    IF original[g.id] = g.blue_target_group THEN g.green_target_group ELSE g.blue_target_group

\* The forward action that sends w percent to `to` and the rest to `from`.
Split(from, to, w) ==
    [t \in {x \in {from, to} : (IF x = to THEN w ELSE 100 - w) > 0} |->
        IF t = to THEN w ELSE 100 - w]

\* The replacement's share after the next shift under a deployment configuration.
NextWeight(config, w) ==
    CASE config = "ALL_AT_ONCE" -> 100
      [] config = "CANARY_10PERCENT_5MINUTES" -> IF w = 0 THEN 10 ELSE 100
      [] config = "LINEAR_10PERCENT_EVERY_1MINUTES" -> IF w + 10 > 100 THEN 100 ELSE w + 10

\* Whether the group rolls back a deployment that ended in phase p.
RollbackEnabled(g, p) ==
    \/ p = "failed" /\ g.auto_rollback.failed_deployment
    \/ p = "stopped" /\ g.auto_rollback.stopped_deployment

InFlight == {"installing", "testing", "shifting", "shifted"}

\* A new revision is deployed: its task set goes to the group not serving now.
StartDeployment(g) ==
    /\ pc = "done"
    /\ phase[g.id] = "idle"
    /\ deployments[g.id] < MaxDeployments
    /\ original' = [original EXCEPT ![g.id] = Serving(forward[g.listener])]
    /\ phase' = [phase EXCEPT ![g.id] = "installing"]
    /\ outcome' = [outcome EXCEPT ![g.id] = "in_progress"]
    /\ rollback' = [rollback EXCEPT ![g.id] = "none"]
    /\ deployments' = [deployments EXCEPT ![g.id] = @ + 1]
    /\ UNCHANGED <<forward, responderVars, stackVars>>

\* The test listener is pointed at the replacement for verification.
RerouteTestTraffic(g) ==
    /\ phase[g.id] = "installing"
    /\ forward' = [forward EXCEPT ![g.test_listener] = Split(original[g.id], Replacement(g), 100)]
    /\ phase' = [phase EXCEPT ![g.id] = "testing"]
    /\ UNCHANGED <<original, outcome, rollback, deployments, responderVars, stackVars>>

\* One step of the production listener's shift, per the deployment configuration.
ShiftTraffic(g) ==
    /\ phase[g.id] \in {"testing", "shifting"}
    /\ LET w == NextWeight(g.deployment_config, Weight(forward[g.listener], Replacement(g)))
       IN  /\ forward' = [forward EXCEPT ![g.listener] = Split(original[g.id], Replacement(g), w)]
           /\ phase' = [phase EXCEPT ![g.id] = IF w = 100 THEN "shifted" ELSE "shifting"]
    /\ UNCHANGED <<original, outcome, rollback, deployments, responderVars, stackVars>>

\* The termination wait has elapsed: the original task set is torn down.
TerminateOriginal(g) ==
    /\ phase[g.id] = "shifted"
    /\ phase' = [phase EXCEPT ![g.id] = "idle"]
    /\ outcome' = [outcome EXCEPT ![g.id] = "succeeded"]
    /\ UNCHANGED <<forward, original, rollback, deployments, responderVars, stackVars>>

\* The deployment fails.
FailDeployment(g) ==
    /\ phase[g.id] \in InFlight
    /\ phase' = [phase EXCEPT ![g.id] = "failed"]
    /\ outcome' = [outcome EXCEPT ![g.id] = "failed"]
    /\ UNCHANGED <<forward, original, rollback, deployments, responderVars, stackVars>>

\* The deployment is stopped by an operator.
StopDeployment(g) ==
    /\ phase[g.id] \in InFlight
    /\ phase' = [phase EXCEPT ![g.id] = "stopped"]
    /\ outcome' = [outcome EXCEPT ![g.id] = "stopped"]
    /\ UNCHANGED <<forward, original, rollback, deployments, responderVars, stackVars>>

\* The failed or stopped deployment ends: with its rollback trigger enabled the
\* production listener is shifted back to the group that served before it.
EndDeployment(g) ==
    /\ phase[g.id] \in {"failed", "stopped"}
    /\ forward' = IF RollbackEnabled(g, phase[g.id])
                  THEN [forward EXCEPT ![g.listener] = Split(Replacement(g), original[g.id], 100)]
                  ELSE forward
    /\ rollback' = [rollback EXCEPT ![g.id] =
                        IF ~RollbackEnabled(g, phase[g.id]) THEN "disabled"
                        ELSE IF Weight(forward[g.listener], Replacement(g)) > 0
                             THEN "shifted_back" ELSE "nothing_to_shift"]
    /\ phase' = [phase EXCEPT ![g.id] = "idle"]
    /\ UNCHANGED <<original, outcome, deployments, responderVars, stackVars>>

----------------------------------------------------------------------------
(* The system *)

NoResponse == [status |-> 0, contentType |-> "", body |-> [status |-> "none"]]

\* Nothing is declared before InfraEcommerceStack.__init__ runs.
InitStack ==
    /\ pc = "networking"
    /\ constructs = {}
    /\ ingress = {}
    /\ loadBalancers = {}
    /\ listeners = {}
    /\ databases = {}
    /\ containers = {}
    /\ services = {}
    /\ targetGroups = {}
    /\ attachments = {}
    /\ listenerRules = {}
    /\ deploymentGroups = {}
    /\ outputs = {}
    /\ forward = <<>>
    /\ phase = <<>>
    /\ original = <<>>
    /\ outcome = <<>>
    /\ rollback = <<>>
    /\ deployments = <<>>

\* The server started by main() under environment e, before its first request.
InitResponder(e) ==
    /\ env = e
    /\ startEnv = e
    /\ listenPort = main_port(e)
    /\ requestPath = NoRequest
    /\ response = NoResponse

\* The environments that set exactly the variables the stack gives the backend
\* container (its environment and its secrets), with the database name and the
\* user name the stack fixes.
ContainerEnvironments ==
    {e \in Environments :
        /\ DOMAIN e = DOMAIN be_container.environment \cup be_container.secrets
        /\ e["DB_NAME"] = be_container.environment.DB_NAME
        /\ e["DB_USERNAME"] = database.username}

\* The stack, its deployments, and the responder as the backend container runs it.
Init ==
    /\ \E e \in ContainerEnvironments : InitResponder(e)
    /\ InitStack

\* The responder alone, under every environment.
InitAnyEnv ==
    /\ \E e \in Environments : InitResponder(e)
    /\ InitStack

Next ==
    \/ \E p \in Paths : do_GET(p)
    \/ BuildNetworking
    \/ BuildRepositories
    \/ BuildSecret
    \/ BuildSecurityGroups
    \/ BuildLoadBalancers
    \/ BuildDatabase
    \/ BuildExecutionRoles
    \/ BuildTaskDefinitions
    \/ BuildServices
    \/ BuildTargetGroups
    \/ BuildListenerRules
    \/ BuildDeploymentGroups
    \/ BuildOutputs
    \/ \E g \in deploymentGroups : StartDeployment(g)
    \/ \E g \in deploymentGroups : RerouteTestTraffic(g)
    \/ \E g \in deploymentGroups : ShiftTraffic(g)
    \/ \E g \in deploymentGroups : TerminateOriginal(g)
    \/ \E g \in deploymentGroups : FailDeployment(g)
    \/ \E g \in deploymentGroups : StopDeployment(g)
    \/ \E g \in deploymentGroups : EndDeployment(g)

Spec == Init /\ [][Next]_vars

NextResponder == \E p \in Paths : do_GET(p)

SpecResponder == InitAnyEnv /\ [][NextResponder]_vars

\* The responder in the backend container, its process environment changing
\* between requests.
NextEnvChange ==
    \/ \E p \in Paths : do_GET(p)
    \/ \E n \in EnvNames : \E v \in EnvValues[n] : environ_set(n, v)
    \/ \E n \in EnvNames : environ_unset(n)

SpecEnvChange == Init /\ [][NextEnvChange]_vars

----------------------------------------------------------------------------
(* Properties of the responder *)

\* Whether a GET has been handled.
Handled == requestPath # NoRequest

\* C1: a GET of "/", "/api", "/api/health" or "/health" is answered with status
\* 200 and a JSON object with status "ok", the fixed placeholder message and a
\* database object with exactly the fields host, port, name, user.
C1_RecognizedPathIsOk ==
    requestPath \in {"/", "/api", "/api/health", "/health"} =>
        /\ response.status = 200
        /\ response.contentType = "application/json"
        /\ DOMAIN response.body = {"status", "message", "database"}
        /\ response.body.status = "ok"
        /\ response.body.message = "Ecommerce backend placeholder"
        /\ DOMAIN response.body.database = {"host", "port", "name", "user"}

C1_Witness ==
    /\ requestPath = "/api/health"
    /\ response.status = 200
    /\ response.body.status = "ok"

\* C2: a GET of any other path is answered with status 404 and the body
\* {status: "not_found", path: p}, p being the path as requested; every request
\* gets a response, and never a 200 for such a path.
C2_UnrecognizedPathIsNotFound ==
    /\ (Handled /\ requestPath \notin {"/", "/api", "/api/health", "/health"}) =>
          /\ response.status = 404
          /\ response.status # 200
          /\ response.body = [status |-> "not_found", path |-> requestPath]
    /\ Handled => response.status \in {200, 404}

C2_Witness ==
    /\ requestPath = "/health?probe=1"
    /\ response.status = 404
    /\ response.body.path = "/health?probe=1"

\* The value a database field takes for environment variable v.
FieldFor(v) == IF v \in DOMAIN env THEN env[v] ELSE "unset"

\* C3: in a 200 response each database field is the literal "unset" when its
\* variable (DB_HOST, DB_PORT, DB_NAME, DB_USERNAME) is absent and the variable's
\* value otherwise, each independently of the others; an absent variable never
\* makes the response an error.
C3_AbsentVariableReadsUnset ==
    requestPath \in {"/", "/api", "/api/health", "/health"} =>
        /\ response.status = 200
        /\ response.body.database.host = FieldFor("DB_HOST")
        /\ response.body.database.port = FieldFor("DB_PORT")
        /\ response.body.database.name = FieldFor("DB_NAME")
        /\ response.body.database.user = FieldFor("DB_USERNAME")

C3_Witness ==
    /\ "DB_HOST" \notin DOMAIN env
    /\ "DB_PORT" \in DOMAIN env
    /\ requestPath = "/health"
    /\ response.status = 200
    /\ response.body.database.host = "unset"
    /\ response.body.database.port = env["DB_PORT"]

----------------------------------------------------------------------------
(* Properties of the stack *)

\* The forward action that sends everything to target group t.
AllTo(t) == [x \in {t} |-> 100]

\* The deployment groups of service v.
GroupsOf(v) == {g \in deploymentGroups : g.service = v.id}

\* The listeners with identifier i.
ListenersNamed(i) == {l \in listeners : l.id = i}

\* The ingress rules of security group sg that admit any IPv4 address.
PublicIngress(sg) == {r \in ingress : r.sg = sg /\ r.peer = AnyIpv4}

\* C4: each service has exactly one production listener, publicly exposed, and
\* exactly one test listener, not publicly exposed; the load balancers' security
\* groups admit public traffic on port 80 only, never on the test port 9000.
C4_TestListenerNotPublic ==
    /\ pc = "done" =>
          \A v \in services :
             /\ Cardinality({l \in listeners : \E g \in GroupsOf(v) : l.id = g.listener}) = 1
             /\ Cardinality({l \in listeners : \E g \in GroupsOf(v) : l.id = g.test_listener}) = 1
             /\ \A g \in GroupsOf(v) :
                   /\ \A l \in ListenersNamed(g.listener) : l.open /\ l.port = 80
                   /\ \A l \in ListenersNamed(g.test_listener) : ~l.open /\ l.port = 9000
    /\ \A b \in loadBalancers :
          /\ \A r \in PublicIngress(b.security_group) : r.port = 80 /\ r.port # 9000
          /\ \A l \in listeners :
                (l.lb = b.id /\ ~l.open) =>
                    \A r \in PublicIngress(b.security_group) : r.port # l.port

C4_Witness ==
    /\ pc = "done"
    /\ \E l \in listeners : l.id = "BeListenerTest" /\ l.port = 9000 /\ ~l.open
    /\ \E l \in listeners : l.id = "FeListenerTest" /\ l.port = 9000 /\ ~l.open
    /\ PublicIngress("BeAlbSg") # {}
    /\ PublicIngress("FeAlbSg") # {}

\* C5: production traffic first routes entirely to blue; the policy is
\* all-at-once, and through any sequence of deployments and rollbacks the
\* production listener forwards to exactly one of blue and green, never to a
\* split; the test listener points at the deployment's new group before the
\* production listener is shifted to it.
C5_ProductionNeverSplit ==
    \A g \in deploymentGroups :
        /\ g.deployment_config = "ALL_AT_ONCE"
        /\ g.blue_target_group # g.green_target_group
        /\ forward[g.listener] \in {AllTo(g.blue_target_group), AllTo(g.green_target_group)}
        /\ (g.id \in DOMAIN deployments /\ deployments[g.id] = 0) =>
               forward[g.listener] = AllTo(g.blue_target_group)
        /\ (g.id \in DOMAIN phase /\ phase[g.id] \in InFlight
              /\ forward[g.listener] # AllTo(original[g.id])) =>
               forward[g.test_listener] = forward[g.listener]

C5_Witness ==
    \E g \in deploymentGroups :
        /\ g.id \in DOMAIN phase
        /\ phase[g.id] = "shifted"
        /\ deployments[g.id] = 2
        /\ original[g.id] = g.green_target_group
        /\ forward[g.listener] = AllTo(g.blue_target_group)
        /\ forward[g.test_listener] = AllTo(g.blue_target_group)

\* C6: both deployment groups roll back failed and stopped deployments: when a
\* deployment that failed or was stopped, during or after cutover, has ended,
\* the production listener again routes to the target group that served before
\* that deployment began.
C6_RollbackRestoresOriginal ==
    /\ pc = "done" => {g.id : g \in deploymentGroups} =
                          {"FrontendDeploymentGroup", "BackendDeploymentGroup"}
    /\ \A g \in deploymentGroups :
          /\ g.auto_rollback.failed_deployment
          /\ g.auto_rollback.stopped_deployment
          /\ (g.id \in DOMAIN phase /\ phase[g.id] = "idle"
                /\ outcome[g.id] \in {"failed", "stopped"}) =>
                 /\ forward[g.listener] = AllTo(original[g.id])
                 /\ rollback[g.id] \in {"shifted_back", "nothing_to_shift"}

C6_Witness ==
    /\ \E g \in deploymentGroups :
          /\ g.id = "BackendDeploymentGroup" /\ g.id \in DOMAIN phase
          /\ phase[g.id] = "idle" /\ outcome[g.id] = "stopped"
          /\ rollback[g.id] = "shifted_back"
          /\ forward[g.listener] = AllTo(original[g.id])
    /\ \E g \in deploymentGroups :
          /\ g.id = "FrontendDeploymentGroup" /\ g.id \in DOMAIN phase
          /\ phase[g.id] = "idle" /\ outcome[g.id] = "failed"
          /\ rollback[g.id] = "shifted_back"
          /\ forward[g.listener] = AllTo(original[g.id])

\* Whether the stack has an output of this name (and, when given, this value and
\* this description).
HasOutput(name) == \E o \in outputs : o.name = name
HasOutputValue(name, value) == \E o \in outputs : o.name = name /\ o.value = value
HasOutputDescription(name, description) ==
    \E o \in outputs : o.name = name /\ o.description = description

\* C8: the synthesized stack has the outputs LoadBalancerUrl (described as
\* "Public endpoint for the ecommerce frontend"), FrontendDockerContext with value
\* "container_images/frontend", BackendDockerContext with value
\* "container_images/backend", DatabaseSecretArn and DatabaseEndpoint.
C8_ExpectedOutputs ==
    pc = "done" =>
        /\ HasOutputDescription("LoadBalancerUrl", "Public endpoint for the ecommerce frontend")
        /\ HasOutputValue("FrontendDockerContext", "container_images/frontend")
        /\ HasOutputValue("BackendDockerContext", "container_images/backend")
        /\ HasOutput("DatabaseSecretArn")
        /\ HasOutput("DatabaseEndpoint")

\* The ingress rules of the security groups of database d.
DatabaseIngress(d) == {r \in ingress : r.sg \in d.security_groups}

\* C9: the database is never publicly accessible and only the backend service
\* reaches it: its security group has exactly one ingress rule, from the backend
\* service's security group on TCP 3306; no load balancer, no frontend service
\* and no public address is admitted.
C9_DatabaseBackendOnly ==
    \A d \in databases :
        /\ d.engine = "mysql"
        /\ ~d.publicly_accessible
        /\ d.subnet_type = "PRIVATE_ISOLATED"
        /\ DatabaseIngress(d) =
              {[sg |-> "DbSg", peer |-> "BeServiceSg", port |-> 3306, protocol |-> "tcp"]}
        /\ \A r \in DatabaseIngress(d) :
              /\ r.peer # AnyIpv4
              /\ \A b \in loadBalancers : r.peer # b.security_group
              /\ \A v \in services : r.peer \in v.security_groups => v.id = "BackendService"
        /\ pc = "done" =>
              \E v \in services : v.id = "BackendService" /\ "BeServiceSg" \in v.security_groups

C9_Witness ==
    /\ pc = "done"
    /\ databases # {}
    /\ \E r \in ingress : r.sg = "DbSg" /\ r.peer = "BeServiceSg" /\ r.port = 3306
    /\ \E r \in ingress : r.sg = "FeServiceSg"
    /\ \E v \in services : v.id = "FrontendService"

\* The target groups with identifier i.
GroupsNamed(i) == {t \in targetGroups : t.id = i}

\* The default rules on listener i.
DefaultRules(i) == {r \in listenerRules : r.listener = i /\ r.default /\ r.conditions = {}}

\* The container ports of service v.
ContainerPorts(v) == {c.container_port : c \in {c \in containers : c.task = v.task_definition}}

\* C10: each service has exactly one blue/green target group pair; blue and
\* green are distinct target groups with the service's container port and the
\* same health check (path, accepted codes, interval); blue is bound to the
\* production listener and green to the test listener, each by exactly one
\* default rule.
C10_TargetGroupPair ==
    pc \in {"outputs", "done"} =>
        \A v \in services :
            /\ Cardinality(GroupsOf(v)) = 1
            /\ \A g \in GroupsOf(v) :
                  /\ g.blue_target_group # g.green_target_group
                  /\ Cardinality(GroupsNamed(g.blue_target_group)) = 1
                  /\ Cardinality(GroupsNamed(g.green_target_group)) = 1
                  /\ \A b \in GroupsNamed(g.blue_target_group),
                        n \in GroupsNamed(g.green_target_group) :
                        /\ b # n
                        /\ ContainerPorts(v) = {b.port}
                        /\ ContainerPorts(v) = {n.port}
                        /\ b.health_check = n.health_check
                  /\ Cardinality(DefaultRules(g.listener)) = 1
                  /\ Cardinality(DefaultRules(g.test_listener)) = 1
                  /\ \A r \in {r \in listenerRules : r.listener = g.listener} :
                        r.target_groups = {g.blue_target_group} /\ r.default
                  /\ \A r \in {r \in listenerRules : r.listener = g.test_listener} :
                        r.target_groups = {g.green_target_group} /\ r.default

C10_Witness ==
    /\ pc = "done"
    /\ Cardinality(services) = 2
    /\ Cardinality(deploymentGroups) = 2
    /\ Cardinality(targetGroups) = 4
    /\ Cardinality(listenerRules) = 4

----------------------------------------------------------------------------
(* Properties of the responder under a changing environment *)

\* The database object that environment e gives a 200 response.
DatabaseOf(e) ==
    [host |-> IF "DB_HOST" \in DOMAIN e THEN e["DB_HOST"] ELSE "unset",
     port |-> IF "DB_PORT" \in DOMAIN e THEN e["DB_PORT"] ELSE "unset",
     name |-> IF "DB_NAME" \in DOMAIN e THEN e["DB_NAME"] ELSE "unset",
     user |-> IF "DB_USERNAME" \in DOMAIN e THEN e["DB_USERNAME"] ELSE "unset"]

----------------------------------------------------------------------------
(* Properties of the responder as the stack wires it *)

\* The target groups the backend deployment group pairs.
BackendTargetGroups ==
    {t \in targetGroups : \E g \in deploymentGroups :
        g.service = "BackendService" /\ t.id \in {g.blue_target_group, g.green_target_group}}

\* C12: the stack sets no PORT, so the responder listens on its default 4000,
\* which is the backend container port, the port of both backend target groups
\* and the port the backend service's security group admits from the backend
\* load balancer; the health-check path "/health" is a recognized path and its
\* status 200 lies in the accepted range 200-399, so the responder passes the
\* health check.
C12_BackendWiringConsistent ==
    /\ "PORT" \notin DOMAIN env
    /\ listenPort = 4000
    /\ \A c \in containers : c.id = "BackendContainer" =>
          /\ c.container_port = listenPort
          /\ "PORT" \notin DOMAIN c.environment \cup c.secrets
    /\ \A r \in ingress : (r.sg = "BeServiceSg" /\ r.peer = "BeAlbSg") => r.port = listenPort
    /\ pc = "done" =>
          /\ \E r \in ingress : r.sg = "BeServiceSg" /\ r.peer = "BeAlbSg" /\ r.port = listenPort
          /\ {t.id : t \in BackendTargetGroups} = {"BeTgProdV3", "BeTgTestV3"}
          /\ \A t \in BackendTargetGroups :
                /\ t.port = listenPort
                /\ t.health_check.path = "/health"
                /\ healthy_http_codes(t.health_check.healthy_http_codes) = 200..399
                /\ do_GET_response(t.health_check.path, env).status
                      \in healthy_http_codes(t.health_check.healthy_http_codes)
                /\ requestPath = t.health_check.path =>
                      /\ response.status = 200
                      /\ response.status \in healthy_http_codes(t.health_check.healthy_http_codes)

C12_Witness ==
    /\ pc = "done"
    /\ listenPort = 4000
    /\ requestPath = "/health"
    /\ response.status = 200
    /\ Cardinality(BackendTargetGroups) = 2

\* Whether two environments differ in DB_PASSWORD at most.
SameButPassword(e1, e2) ==
    /\ DOMAIN e1 \ {"DB_PASSWORD"} = DOMAIN e2 \ {"DB_PASSWORD"}
    /\ \A n \in DOMAIN e1 \ {"DB_PASSWORD"} : e1[n] = e2[n]

\* The values a response body holds, its database object's included.
BodyValues(body) ==
    {body[k] : k \in DOMAIN body \ {"database"}}
      \cup (IF "database" \in DOMAIN body
            THEN {body.database[k] : k \in DOMAIN body.database} ELSE {})

\* C13: the stack gives the backend container DB_PASSWORD as a secret, beside
\* DB_USERNAME, and the responder never discloses it: the response to a request
\* is the same, status and body, under every environment that differs from the
\* process's in DB_PASSWORD only, and no body has a password field or holds the
\* password.
C13_PasswordNotDisclosed ==
    /\ be_container.secrets = {"DB_USERNAME", "DB_PASSWORD"}
    /\ Handled =>
          /\ \A e2 \in Environments :
                SameButPassword(env, e2) => do_GET_response(requestPath, e2) = response
          /\ "password" \notin DOMAIN response.body
          /\ "database" \in DOMAIN response.body =>
                "password" \notin DOMAIN response.body.database
          /\ "DB_PASSWORD" \in DOMAIN env => env["DB_PASSWORD"] \notin BodyValues(response.body)

C13_Witness ==
    /\ "DB_PASSWORD" \in DOMAIN env
    /\ env["DB_PASSWORD"] = "hunter2"
    /\ requestPath = "/api"
    /\ response.status = 200
    /\ response = do_GET_response("/api", [n \in DOMAIN env |->
                       IF n = "DB_PASSWORD" THEN "s3cret" ELSE env[n]])

====
